---- MODULE Spec2Model ----
(***************************************************************************)
(* The cfbot ring queue of pgcommitfest (commitfest/cfbot_queue.py): a     *)
(* doubly linked list of CfbotQueueItem rows, used as a circular buffer,   *)
(* with the CfbotQueue row holding the pointer to the next item to hand    *)
(* out.  Rows are keyed by their auto id; ll_prev / ll_next hold ids.      *)
(* And the branch pipeline (commitfest/branchmanager_template.py):         *)
(* BranchManager.process steps a CfbotBranch through apply, compile and    *)
(* test, its Notifier writing the branch history and the queue item.       *)
(* The requests of commitfest/apiv1.py are taken as one step each, and,    *)
(* where two of them or a request and a thread meet, statement by          *)
(* statement.                                                              *)
(***************************************************************************)
EXTENDS Integers, Sequences, FiniteSets, TLC

\* ------------------------------------------------------------------ bounds
\* Rows ever created (the auto id sequence stops at MaxId).
MaxId == 3
\* Patch ids the callers pass in.
MaxPatch == 2
\* CfbotBranchHistory rows ever written for the followed branch: the one of
\* its creation and those of twelve calls of process, one of which writes
\* two.
MaxHistory == 14
\* The readings of the clock (datetime.now()).
MaxClock == 2
\* Patch files of the followed branch's patch set (Apply Patch commands).
MaxCommands == 3
\* Patch ids of the runs that look at where an item is placed in the ring;
\* their id sequence stops one later, so that one row can be removed and
\* another created in its stead.
MaxRing == 3

\* --------------------------------------------------------- value encoding
\* Python None / SQL NULL.
NULL == -1
\* The value of datetime.now(): some non-null timestamp.
STAMP == 1
\* A base commit sha of a branch (branch.base_commit_sha), a non-null text.
SHA == 1
\* The patch of the branch that is followed through the pipeline.
BranchPatch == 1
\* The patch files of its patch set as the download thread counts them: the
\* Apply Patch commands of the Apply task.
BranchFiles == 2

Ids == 1..MaxId
PatchIds == 1..MaxPatch
RingIds == 1..(MaxRing + 1)
RingPatchIds == 1..MaxRing
\* The message ids the callers pass in.  The code only compares message ids for
\* equality, so two of them show every case.
MessageIds == {1, 2}

\* Python truthiness of a nullable integer column: None and 0 are falsy.
Truthy(x) == x # NULL /\ x # 0

\* The frames Python allows get_and_move to nest before RecursionError; it is
\* kept above the number of rows, so that skipping a run of ignored items that
\* ends at a live one never reaches it.
RecursionLimit == MaxId + 1

\* The iterations after which the placement walk of insert_item is given up
\* as not terminating (a walk over n rows ends within 2n + 1 iterations).
WalkLimit == 2 * MaxId + 2

VARIABLES
    items,               \* CfbotQueueItem rows: id -> row
    current_queue_item,  \* CfbotQueue.current_queue_item
    next_id,             \* the next value of the CfbotQueueItem id sequence
    last,                \* the last call of insert_item, remove_item or
                         \* get_and_move, if no other call came after it:
                         \* the operation and its result
    served               \* the run of get_and_move calls made since the last
                         \* insert_item, remove_item or clear_queue: the
                         \* pointer before the first of them, how many they
                         \* are, and the item the last of them returned
VARIABLES
    branch,              \* the CfbotBranch row of patch BranchPatch
    tasks,               \* the CfbotTask rows of the branch: name -> status
    threads,             \* the threads started by process that still run
    history,             \* the number of CfbotBranchHistory rows
    commands,            \* the Apply Patch commands of the Apply task as
                         \* the apply thread has loaded them, by file name:
                         \* their statuses
    now,                 \* the clock
    step,                \* the last call of process: the history rows there
                         \* were, the status it found, the delay it returned
                         \* and what it raised
    run                  \* the statuses the calls of process have yielded
                         \* since the branch was created, as long as no
                         \* thread ran at the time of a call and nothing
                         \* failed or was aborted (quiet)
VARIABLES
    calls                \* the requests that are being served, where they
                         \* are taken statement by statement: caller -> what
                         \* the request holds in memory and where it stands

qvars == <<items, current_queue_item, next_id, last, served>>
pvars == <<branch, tasks, threads, history, commands, now, step, run, calls>>
vars == <<items, current_queue_item, next_id, last, served,
          branch, tasks, threads, history, commands, now, step, run, calls>>

\* The least element: the row an unordered QuerySet.first() returns (by pk).
MinOf(S) == CHOOSE x \in S : \A y \in S : x <= y

\* A CfbotQueueItem row as objects.create() makes it.
NewItem(patch_id, message_id, ll_prev, ll_next) ==
    [patch_id |-> patch_id, message_id |-> message_id,
     ignore_date |-> NULL, processed_date |-> NULL,
     ll_prev |-> ll_prev, ll_next |-> ll_next,
     last_base_commit_sha |-> NULL]

\* The queue as one value: the rows, the pointer and the id sequence.
Queue(its, cur, nid) == [items |-> its, cursor |-> cur, next_id |-> nid]

\* The outcome of a call: the queue it leaves, what it returns, what it raises.
\* path names the branch of insert_item the call took.
Return(q, returned, newcurrent) ==
    [q |-> q, returned |-> returned, newcurrent |-> newcurrent, exc |-> "none",
     path |-> "none"]
Raise(q, exc) ==
    [q |-> q, returned |-> NULL, newcurrent |-> NULL, exc |-> exc,
     path |-> "none"]

\* CfbotQueue.get_first_item: the first row whose ll_prev is NULL, or None.
get_first_item(its) ==
    LET heads == {i \in DOMAIN its : its[i].ll_prev = NULL}
    IN  IF heads = {} THEN NULL ELSE MinOf(heads)

\* CfbotQueue.peek.
peek(q) ==
    IF ~Truthy(q.cursor) THEN NULL ELSE q.cursor

\* A delete that leaves the row.
DeleteRow_forgotten(its, id) == its

\* The rows without row id (Model.delete).
DeleteRow(its, id) == [i \in DOMAIN its \ {id} |-> its[i]]

\* A removal that ends the list at the previous item.
unlink_prev_to_end(its, it) ==
    IF Truthy(it.ll_prev) /\ it.ll_prev \in DOMAIN its
    THEN [its EXCEPT ![it.ll_prev].ll_next = NULL]
    ELSE its

\* A removal that leaves the previous item's ll_next as it was.
unlink_prev_forgotten(its, it) == its

\* remove_item: the previous item's ll_next skips the removed item it.
unlink_prev(its, it) ==
    IF Truthy(it.ll_prev) /\ it.ll_prev \in DOMAIN its
    THEN [its EXCEPT ![it.ll_prev].ll_next = it.ll_next]
    ELSE its

\* A removal that leaves the next item's ll_prev as it was.
unlink_next_forgotten(its, it) == its

\* remove_item: the next item's ll_prev skips the removed item it.
unlink_next(its, it) ==
    IF Truthy(it.ll_next) /\ it.ll_next \in DOMAIN its
    THEN [its EXCEPT ![it.ll_next].ll_prev = it.ll_prev]
    ELSE its

\* A removal that never moves the pointer back to the start of the list.
pointer_never_wraps(cursor, item_id, it, first_item) ==
    IF cursor = item_id THEN it.ll_next ELSE cursor

\* A removal that leaves the pointer on the removed item.
pointer_left_behind(cursor, item_id, it, first_item) == cursor

\* remove_item: the pointer after the removal of row item_id (it), where
\* first_item is what get_first_item returns before the row is deleted.
pointer_after_remove(cursor, item_id, it, first_item) ==
    IF cursor = item_id
    THEN IF Truthy(it.ll_next) THEN it.ll_next
         \* the end of the list: move the pointer to the start
         ELSE IF first_item = item_id THEN NULL
         ELSE first_item
    ELSE cursor

\* remove_item: the branch that decides the pointer, for a row item_id of
\* the queue.
pointer_branch(q, item_id) ==
    LET it == q.items[item_id]
        first_item == get_first_item(unlink_next(unlink_prev(q.items, it), it))
    IN  IF q.cursor # item_id THEN "kept"
        ELSE IF Truthy(it.ll_next) THEN "to_next"
        ELSE IF first_item = item_id THEN "to_none"
        ELSE "to_first"

\* CfbotQueue.remove_item.  An exception leaves the transaction's writes
\* undone, so the queue is as before the call.
remove_item(q, item_id) ==
    IF item_id \notin DOMAIN q.items THEN Raise(q, "ValueError")
    ELSE
    LET it == q.items[item_id]
        i2 == unlink_next(unlink_prev(q.items, it), it)
        first_item == get_first_item(i2)
    IN  IF q.cursor = item_id /\ ~Truthy(it.ll_next) /\ first_item = NULL
        THEN Raise(q, "AttributeError")
        ELSE Return(Queue(DeleteRow(i2, item_id),
                          pointer_after_remove(q.cursor, item_id, it, first_item),
                          q.next_id), NULL, NULL)

\* The rows with one more row (objects.create).
CreateRow(its, id, row) ==
    [i \in DOMAIN its \cup {id} |-> IF i = id THEN row ELSE its[i]]

\* A walk that passes over processed items.
ends_on_processed_never(current_item, li) == FALSE

\* The walk of insert_item: past the pointer's item, loop_item is processed.
ends_on_processed(current_item, li) ==
    current_item # NULL /\ li.processed_date # NULL

\* The walk of insert_item (the while loop) from loop_item on: the item after
\* which the new item goes.  <<"found", id>>, <<"none", NULL>> when the loop
\* ends with target_item None, <<"hang", NULL>> when it does not end.
RECURSIVE find_target(_, _, _, _, _, _)
find_target(q, first_item, loop_item, current_item, previous_item, fuel) ==
    IF loop_item = NULL THEN <<"none", NULL>>
    ELSE IF ~Truthy(q.cursor) THEN <<"none", NULL>>
    ELSE
    LET li == q.items[loop_item] IN
    \* cannot move the pointer off the current item, and nowhere to go
    IF ~Truthy(li.ll_next) /\ ~Truthy(li.ll_prev) THEN <<"found", loop_item>>
    \* tail of the ring queue, no not-processed items
    ELSE IF current_item # NULL /\ loop_item = q.cursor
    THEN <<"found", previous_item>>
    \* last of the processed items
    ELSE IF ends_on_processed(current_item, li)
    THEN <<"found", previous_item>>
    ELSE IF fuel = 0 THEN <<"hang", NULL>>
    ELSE
    LET cur2 == IF current_item = NULL /\ loop_item = q.cursor
                THEN loop_item ELSE current_item
        nxt  == IF li.ll_next = NULL THEN first_item
                ELSE IF li.ll_next \in DOMAIN q.items THEN li.ll_next
                ELSE NULL
    IN  find_target(q, first_item, nxt, cur2, loop_item, fuel - 1)

\* An insert that moves the pointer to the new row.
pointer_to_new_item(cursor, nid) == nid

\* insert_item: the pointer after the new row nid is linked in.
pointer_after_insert(cursor, nid) ==
    IF ~Truthy(cursor) THEN nid ELSE cursor

\* insert_item from the walk on: find the target and link a new row after it.
place_item(q, patch_id, message_id) ==
    LET first_item == get_first_item(q.items)
        walk == find_target(q, first_item, first_item, NULL, NULL, WalkLimit)
        target == walk[2]
        nid == q.next_id
    IN  IF walk[1] = "hang" THEN Raise(q, "NonTermination")
        \* special case if the queue is empty
        ELSE IF ~Truthy(q.cursor)
        THEN Return(Queue(CreateRow(q.items, nid,
                                    NewItem(patch_id, message_id, NULL, NULL)),
                          nid, nid + 1), nid, NULL)
        ELSE IF target = NULL THEN Raise(q, "AttributeError")
        ELSE
        LET t == q.items[target]
            \* 0 stands in for None until the target's ll_next is rewritten
            new == NewItem(patch_id, message_id, target,
                           IF Truthy(t.ll_next) THEN t.ll_next ELSE 0)
            i1 == CreateRow(q.items, nid, new)
        IN  IF Truthy(t.ll_next) /\ t.ll_next \notin DOMAIN i1
            THEN Raise(q, "DoesNotExist")
            ELSE
            LET i2 == IF Truthy(t.ll_next)
                      THEN [i1 EXCEPT ![t.ll_next].ll_prev = nid]
                      ELSE i1
                \* target_item.save() writes the row as the walk read it
                i3 == [i2 EXCEPT ![target] = [t EXCEPT !.ll_next = nid]]
                i4 == IF new.ll_next = 0
                      THEN [i3 EXCEPT ![nid] = [new EXCEPT !.ll_next = NULL]]
                      ELSE i3
            IN  Return(Queue(i4, pointer_after_insert(q.cursor, nid), nid + 1),
                       nid, NULL)

\* An insert that does not look for the patch's row.
existing_patch_unseen(its, patch_id) == {}

\* insert_item: the rows of the patch.
existing_patch(its, patch_id) ==
    {i \in DOMAIN its : its[i].patch_id = patch_id}

\* An insert that takes every patch set for a new one.
same_message_never(item, message_id) == FALSE

\* insert_item: the existing row holds the patch set that is being inserted.
same_message(item, message_id) == item.message_id = message_id

\* CfbotQueue.insert_item.
insert_item(q, patch_id, message_id) ==
    LET existing == existing_patch(q.items, patch_id)
    IN  IF Cardinality(existing) = 1
        THEN LET e == MinOf(existing) IN
             IF same_message(q.items[e], message_id)
             THEN [Return(q, e, NULL) EXCEPT !.path = "existing"]
             ELSE \* remove and replace
                  LET r == remove_item(q, e) IN
                  IF r.exc # "none" THEN [r EXCEPT !.path = "replaced"]
                  ELSE [place_item(r.q, patch_id, message_id)
                            EXCEPT !.path = "replaced"]
        ELSE [place_item(q, patch_id, message_id) EXCEPT !.path = "created"]

\* A pointer that always goes to the front of the queue.
next_pointer_to_front(current_item, first_item) == first_item

\* get_and_move: where the pointer goes from current_item.
next_pointer(current_item, first_item) ==
    IF Truthy(current_item.ll_next) THEN current_item.ll_next
    \* wrap back to the front of the queue
    ELSE first_item

\* A get_and_move that does not write the processed_date.
mark_processed_forgotten(its, id) == its

\* get_and_move: the processed_date of the returned item is updated.
mark_processed(its, id) == [its EXCEPT ![id].processed_date = STAMP]

\* A get_and_move that skips nothing.
is_ignored_never(item) == FALSE

\* get_and_move: the item is skipped.
is_ignored(item) == item.ignore_date # NULL

\* CfbotQueue.get_and_move, depth frames deep.  Every save is committed as it
\* is made, so an exception leaves the writes made before it.
RECURSIVE get_and_move(_, _)
get_and_move(q, depth) ==
    IF depth > RecursionLimit THEN Raise(q, "RecursionError")
    ELSE IF ~Truthy(q.cursor) THEN Return(q, NULL, NULL)
    ELSE IF q.cursor \notin DOMAIN q.items THEN Raise(q, "DoesNotExist")
    ELSE
    LET cur == q.cursor
        current_item == q.items[cur]
        first_item == get_first_item(q.items)
    IN  IF ~Truthy(current_item.ll_next) /\ first_item = NULL
        THEN Raise(q, "AttributeError")
        ELSE
        LET moved == next_pointer(current_item, first_item)
        IN  IF moved \notin DOMAIN q.items THEN Raise(q, "DoesNotExist")
            ELSE
            LET q2 == Queue(mark_processed(q.items, cur), moved, q.next_id)
            IN  \* skip ignored items
                IF is_ignored(current_item)
                THEN get_and_move(q2, depth + 1)
                ELSE Return(q2, cur, moved)

\* A Notifier that leaves the queue item's ignore_date alone.
update_queue_ignore_date_skipped(q, patch_id) == q

\* Notifier.update_queue_ignore_date for a branch of patch patch_id.
update_queue_ignore_date(q, patch_id) ==
    LET found == {i \in DOMAIN q.items : q.items[i].patch_id = patch_id}
    IN  IF found = {} THEN q
        ELSE [q EXCEPT !.items[MinOf(found)].ignore_date = STAMP]

\* A Notifier that leaves the queue item's last_base_commit_sha alone.
update_queue_latest_base_commit_sha_skipped(q, patch_id, sha) == q

\* Notifier.update_queue_latest_base_commit_sha for a branch of patch patch_id
\* whose base_commit_sha is sha.
update_queue_latest_base_commit_sha(q, patch_id, sha) ==
    LET found == {i \in DOMAIN q.items : q.items[i].patch_id = patch_id}
    IN  IF found = {} THEN q
        ELSE [q EXCEPT !.items[MinOf(found)].last_base_commit_sha = sha]

\* Workflow.createBranch, as far as the queue goes: the patch's queue item
\* gets its processed_date.
createBranch(q, patch_id) ==
    LET found == {i \in DOMAIN q.items : q.items[i].patch_id = patch_id}
    IN  IF found = {} THEN Raise(q, "ValueError")
        ELSE Return([q EXCEPT !.items[MinOf(found)].processed_date = STAMP],
                    NULL, NULL)

\* apiv1.clear_queue.
clear_queue(q) == Queue(<<>>, NULL, q.next_id)

\* ------------------------------------------------ the branch pipeline
\* BranchManager.process steps one CfbotBranch through apply, compile and
\* test.  One branch is followed, that of patch BranchPatch.  A call of
\* process is taken as one step; the threads it starts (download, apply,
\* make, test) end in steps of their own.

\* CfbotTask.is_done.
task_is_done(status) == status \in {"FAILED", "COMPLETED", "ABORTED", "ERRORED"}

\* CfbotTask.is_failure.
task_is_failure(status) == status \in {"ABORTED", "ERRORED", "FAILED"}

\* The statuses process leaves alone.
TerminalStatuses ==
    {"finished", "applying-aborted", "applying-failed", "compiling-aborted",
     "compiling-failed", "testing-aborted", "testing-failed"}

\* No CfbotBranch row (process is called with None).
NoBranch ==
    [status |-> "none", needs_rebase_since |-> NULL, failing_since |-> NULL,
     patch_count |-> NULL, base_commit_sha |-> NULL]

\* No CfbotTask rows.
NoTasks == [n \in {} |-> "CREATED"]

\* Model.save / objects.create of the task named name.
SaveTask(tasks_, name, status) ==
    [n \in DOMAIN tasks_ \cup {name} |-> IF n = name THEN status ELSE tasks_[n]]

\* What process works on: the branch row, the task rows of the branch, the
\* threads that run, the number of CfbotBranchHistory rows, and the queue.
Pipe(b, t, th, h, q) ==
    [branch |-> b, tasks |-> t, threads |-> th, history |-> h, q |-> q]

\* The outcome of process: what it leaves, the delay it returns, what it
\* raises.
Outcome(p, delay) == [p |-> p, delay |-> delay, exc |-> "none"]
Fail(p, exc) == [p |-> p, delay |-> NULL, exc |-> exc]

\* get_delay of the local applier, compiler and tester.
applier_get_delay == NULL
compiler_get_delay == 60
tester_get_delay == 60

\* A history that records nothing.
add_branch_to_history_skipped(h) == h

\* CfbotBranchHistory.add_branch_to_history: one more row.
add_branch_to_history(h) == h + 1

\* A failure of the tests that is not recorded on the branch.
testing_failure_unrecorded(b, now_) == b

\* notify_branch_update, status testing-aborted or testing-failed.
testing_failure(b, now_) ==
    [b EXCEPT !.needs_rebase_since = NULL, !.failing_since = now_]

\* notify_branch_update, status compiling-aborted or compiling-failed.
compiling_failure(b, now_) ==
    [b EXCEPT !.needs_rebase_since = now_, !.failing_since = now_]

\* Notifier.notify_branch_update at time now.
notify_branch_update(p, now_) ==
    LET st == p.branch.status
        b1 == IF st \in {"compiling-aborted", "compiling-failed"}
              THEN compiling_failure(p.branch, now_)
              ELSE IF st \in {"testing-aborted", "testing-failed"}
              THEN testing_failure(p.branch, now_)
              ELSE p.branch
        q1 == IF st \in {"compiling-aborted", "compiling-failed",
                         "testing-aborted", "testing-failed"}
              THEN update_queue_ignore_date(p.q, BranchPatch)
              ELSE p.q
        q2 == IF st \in {"compiled", "compiling-failed"}
              THEN update_queue_latest_base_commit_sha(q1, BranchPatch,
                                                       b1.base_commit_sha)
              ELSE q1
    IN  [p EXCEPT !.branch = b1, !.q = q2,
                  !.history = add_branch_to_history(@)]

\* BranchManager.clear_tasks.
clear_tasks(p) == [p EXCEPT !.tasks = NoTasks]

\* Tasks that always count as done.
all_tasks_done_always(tasks_) == TRUE

\* all(task.is_done() for task in tasks).
all_tasks_done(tasks_) == \A n \in DOMAIN tasks_ : task_is_done(tasks_[n])

\* Tasks none of which counts as failed.
any_task_failed_never(tasks_) == FALSE

\* any(task.is_failure() for task in tasks).
any_task_failed(tasks_) == \E n \in DOMAIN tasks_ : task_is_failure(tasks_[n])

\* A begin that does not look for tasks of the branch.
begin_over_tasks(p, name, status, started) ==
    [ok |-> TRUE,
     p |-> [p EXCEPT !.tasks = SaveTask(@, name, status),
                     !.threads = @ \cup started]]

\* begin of the applier, the compiler and the tester: refuses when the branch
\* has tasks, else creates the stage's task with the given status (the
\* applier also starts the download thread).
begin(p, name, status, started) ==
    IF DOMAIN p.tasks # {} THEN [ok |-> FALSE, p |-> p]
    ELSE [ok |-> TRUE,
          p |-> [p EXCEPT !.tasks = SaveTask(@, name, status),
                          !.threads = @ \cup started]]

\* PatchApplierTemplate.is_done.
applier_is_done(p) ==
    IF all_tasks_done(p.tasks) THEN [done |-> TRUE, p |-> p, exc |-> "none"]
    ELSE IF /\ "Download" \in DOMAIN p.tasks
            /\ task_is_done(p.tasks["Download"])
            /\ p.branch.patch_count = NULL
    THEN IF "Apply" \notin DOMAIN p.tasks
         \* apply_task is None: the count is saved, then the write fails
         THEN [done |-> FALSE, p |-> [p EXCEPT !.branch.patch_count = 0],
               exc |-> "AttributeError"]
         ELSE [done |-> FALSE,
               p |-> [p EXCEPT !.branch.patch_count = BranchFiles,
                               !.tasks = SaveTask(@, "Apply", "EXECUTING"),
                               !.threads = @ \cup {"apply"}],
               exc |-> "none"]
    ELSE [done |-> FALSE, p |-> p, exc |-> "none"]

\* PatchApplierTemplate.did_fail; merge_ok is what convert_to_merge_commit
\* returns, patch_files what get_patch_count returns (the files of the
\* working directory that are named .diff or .patch).
applier_did_fail(p, merge_ok, patch_files) ==
    LET failed == any_task_failed(p.tasks) \/ ~merge_ok
        b1 == [p.branch EXCEPT !.patch_count = patch_files]
    IN  [failed |-> failed,
         p |-> [p EXCEPT !.branch = IF failed THEN b1
                                    ELSE [b1 EXCEPT !.base_commit_sha = SHA]]]

\* task.is_done() of the task named name as the loops of is_done record it:
\* "absent" stands for None.
is_done_or_none(tasks_, name) ==
    IF name \notin DOMAIN tasks_ THEN "absent"
    ELSE IF task_is_done(tasks_[name]) THEN "done" ELSE "running"

\* PatchCompilerTemplate.is_done; configure_ok is how do_configure_sync ends.
compiler_is_done(p, configure_ok) ==
    LET configure_is_done == is_done_or_none(p.tasks, "Meson Setup")
        make_is_done == is_done_or_none(p.tasks, "Ninja")
        compile_is_done == is_done_or_none(p.tasks, "Compile")
    IN  IF compile_is_done = "absent"
        THEN [done |-> FALSE, p |-> p, exc |-> "ValueError"]
        ELSE IF compile_is_done = "done"
        THEN [done |-> TRUE, p |-> p, exc |-> "none"]
        ELSE
        LET t1 == IF p.tasks["Compile"] = "CREATED"
                  THEN SaveTask(p.tasks, "Compile", "EXECUTING") ELSE p.tasks
            t2 == IF configure_is_done = "absent"
                  THEN SaveTask(t1, "Meson Setup",
                                IF configure_ok THEN "COMPLETED" ELSE "FAILED")
                  ELSE t1
        IN  IF configure_is_done = "absent" /\ ~configure_ok
            THEN [done |-> TRUE,
                  p |-> [p EXCEPT !.tasks = SaveTask(t2, "Compile", "COMPLETED")],
                  exc |-> "none"]
            ELSE
            LET t3 == IF make_is_done = "absent"
                      THEN SaveTask(t2, "Ninja", "EXECUTING") ELSE t2
                th == IF make_is_done = "absent"
                      THEN p.threads \cup {"make"} ELSE p.threads
            IN  IF make_is_done = "done" /\ configure_is_done = "done"
                THEN [done |-> TRUE,
                      p |-> [p EXCEPT !.tasks = SaveTask(t3, "Compile", "COMPLETED"),
                                      !.threads = th],
                      exc |-> "none"]
                ELSE [done |-> FALSE,
                      p |-> [p EXCEPT !.tasks = t3, !.threads = th],
                      exc |-> "none"]

\* PatchTesterTemplate.is_done.
tester_is_done(p) ==
    LET test_is_done == is_done_or_none(p.tasks, "Run Test")
        testing_is_done == is_done_or_none(p.tasks, "Test")
    IN  IF testing_is_done = "absent"
        THEN [done |-> FALSE, p |-> p, exc |-> "ValueError"]
        ELSE IF testing_is_done = "done"
        THEN [done |-> TRUE, p |-> p, exc |-> "none"]
        ELSE
        LET t1 == IF p.tasks["Test"] = "CREATED"
                  THEN SaveTask(p.tasks, "Test", "EXECUTING") ELSE p.tasks
            t2 == IF test_is_done = "absent"
                  THEN SaveTask(t1, "Run Test", "EXECUTING") ELSE t1
            th == IF test_is_done = "absent"
                  THEN p.threads \cup {"test"} ELSE p.threads
        IN  IF test_is_done = "done"
            THEN [done |-> TRUE,
                  p |-> [p EXCEPT !.tasks = SaveTask(t2, "Test", "COMPLETED"),
                                  !.threads = th],
                  exc |-> "none"]
            ELSE [done |-> FALSE,
                  p |-> [p EXCEPT !.tasks = t2, !.threads = th],
                  exc |-> "none"]

\* process on a branch whose stage is to begin: the status and the delay for
\* what begin returned.
began(r, started, aborted) ==
    IF r.ok THEN Outcome([r.p EXCEPT !.branch.status = started], 0)
    ELSE Outcome([r.p EXCEPT !.branch.status = aborted], NULL)

\* process on a branch whose stage runs: d is what is_done returned, failed
\* what did_fail returns (with the branch it leaves in pf), delay what
\* get_delay returns.
ran(d, failed, pf, finished_, failed_, delay) ==
    IF d.exc # "none" THEN Fail(d.p, d.exc)
    ELSE IF d.done
    THEN IF failed THEN Outcome([pf EXCEPT !.branch.status = failed_], NULL)
         ELSE Outcome([pf EXCEPT !.branch.status = finished_], 0)
    ELSE Outcome(d.p, delay)

\* A branch that stays in status notifying.
after_notifying_kept(p) == p

\* process, status tested: after the notifications the branch is finished.
after_notifying(p) == [p EXCEPT !.branch.status = "finished"]

\* A terminal branch for which a delay of 0 is returned.
process_terminal_delayed(p) == Outcome(p, 0)

\* process, a terminal status: nothing but the delay.
process_terminal(p) == Outcome(p, NULL)

\* BranchManager.process up to the final notification.  git_ok: the git
\* commands of applier.did_fail succeed (git_shortstat, get_head_commit_sha
\* and convert_to_merge_commit raise Exception when one does not).
process_status(p, now_, merge_ok, configure_ok, git_ok, patch_files) ==
    LET st == p.branch.status IN
    IF st = "none" THEN Fail(p, "ValueError")
    ELSE IF st = "new"
    THEN began(begin(p, "Download", "EXECUTING", {"download"}),
               "applying", "applying-aborted")
    ELSE IF st = "applying"
    THEN LET d == applier_is_done(p)
             f == applier_did_fail(d.p, merge_ok, patch_files)
         IN  IF d.exc = "none" /\ d.done /\ ~git_ok
             THEN Fail(d.p, "Exception")
             ELSE ran(d, f.failed, f.p, "applied", "applying-failed",
                      applier_get_delay)
    ELSE IF st = "applied"
    THEN began(begin(clear_tasks(p), "Compile", "CREATED", {}),
               "compiling", "compiling-aborted")
    ELSE IF st = "compiling"
    THEN LET d == compiler_is_done(p, configure_ok)
         IN  ran(d, any_task_failed(d.p.tasks), d.p, "compiled",
                 "compiling-failed", compiler_get_delay)
    ELSE IF st = "compiled"
    THEN began(begin(clear_tasks(p), "Test", "CREATED", {}),
               "testing", "testing-aborted")
    ELSE IF st = "testing"
    THEN LET d == tester_is_done(p)
         IN  ran(d, any_task_failed(d.p.tasks), d.p, "tested",
                 "testing-failed", tester_get_delay)
    ELSE IF st = "tested"
    THEN LET p1 == clear_tasks(p)
             p2 == notify_branch_update([p1 EXCEPT !.branch.status = "notifying"],
                                        now_)
         IN  Outcome(after_notifying(p2), NULL)
    ELSE IF st \in TerminalStatuses THEN process_terminal(p)
    ELSE Fail(p, "ValueError")

\* The ways the final notification of process can fail: on the write to the
\* queue item, on branch.save(), on the history row.
NotifierFaults == {"none", "queue item", "branch", "history"}

\* The CfbotBranch row there is when the final notification of process
\* begins: the row process was called with, as nothing has saved the branch
\* yet, but for applier.is_done, which saves and leaves the status, and the
\* notification of a tested branch, which saves the status notifying.
saved_branch(p, r) ==
    IF p.branch.status = "tested"
    THEN [r.p.branch EXCEPT !.status = "notifying"]
    ELSE IF r.p.branch.status = p.branch.status THEN r.p.branch
    ELSE p.branch

\* The final notification of process (line 134) with a failure in it: every
\* write is committed as it is made, so the writes made before the failure
\* stay.
notify_with_fault(p, r, now_, fault) ==
    LET n == notify_branch_update(r.p, now_)
        p0 == [r.p EXCEPT !.branch = saved_branch(p, r)]
    IN  IF fault = "queue item" /\ n.q # r.p.q
        THEN Fail(p0, "DatabaseError")
        ELSE IF fault = "branch"
        THEN Fail([p0 EXCEPT !.q = n.q], "DatabaseError")
        ELSE IF fault = "history"
        THEN Fail([n EXCEPT !.history = r.p.history], "DatabaseError")
        ELSE [r EXCEPT !.p = n]

\* BranchManager.process.
process(p, now_, merge_ok, configure_ok, git_ok, fault, patch_files) ==
    LET r == process_status(p, now_, merge_ok, configure_ok, git_ok,
                           patch_files)
    IN  IF r.exc # "none" THEN r
        ELSE notify_with_fault(p, r, now_, fault)

\* Workflow.createBranch as far as the branch goes (update_or_create and the
\* history row of a created branch); the queue item is createBranch's.
create_branch_row(p) ==
    IF p.branch.status = "none"
    THEN [p EXCEPT !.branch = [NoBranch EXCEPT !.status = "new"],
                   !.history = add_branch_to_history(@)]
    ELSE [p EXCEPT !.branch.status = "new"]

NoCall ==
    [op |-> "none", patch_id |-> NULL, message_id |-> NULL, item_id |-> NULL,
     returned |-> NULL, newcurrent |-> NULL, exc |-> "none", path |-> "none"]

\* No get_and_move call has been made since the last change of the list.
NoRun == [from |-> NULL, calls |-> 0, returned |-> NULL]

\* No call of process has been made.
NoStep == [at |-> 0, from |-> "none", delay |-> NULL, exc |-> "none"]

\* No branch to follow.
NoRunOfSteps == [steps |-> <<>>, quiet |-> FALSE]

\* The callers whose requests are taken statement by statement.
Callers == {1, 2}

\* No request is being served.
IdleCall == [pc |-> "idle"]
NoCalls == [c \in Callers |-> IdleCall]

Init ==
    /\ items = <<>>
    /\ current_queue_item = NULL
    /\ next_id = 1
    /\ last = NoCall
    /\ served = NoRun
    /\ branch = NoBranch
    /\ tasks = NoTasks
    /\ threads = {}
    /\ history = 0
    /\ now = 1
    /\ step = NoStep
    /\ run = NoRunOfSteps
    /\ calls = NoCalls
    /\ commands = <<>>

Here == Queue(items, current_queue_item, next_id)

InstallQueue(q) ==
    /\ items' = q.items
    /\ current_queue_item' = q.cursor
    /\ next_id' = q.next_id

\* A call on the queue leaves the branch and its tasks alone.
Install(q) ==
    /\ InstallQueue(q)
    /\ UNCHANGED pvars

\* A call of insert_item(patch_id, message_id), with the arguments drawn from
\* patches and messages, while the id sequence has not passed max_id.
InsertOf(patches, messages, max_id) ==
    \E patch_id \in patches, message_id \in messages :
        LET r == insert_item(Here, patch_id, message_id)
        IN  /\ r.q.next_id <= max_id + 1
            /\ Install(r.q)
            /\ last' = [NoCall EXCEPT !.op = "insert_item",
                                      !.patch_id = patch_id,
                                      !.message_id = message_id,
                                      !.returned = r.returned,
                                      !.exc = r.exc, !.path = r.path]
            /\ served' = NoRun

Insert == InsertOf(PatchIds, MessageIds, MaxId)

\* A call of remove_item(item_id).
Remove ==
    \E item_id \in Ids :
        LET r == remove_item(Here, item_id)
        IN  /\ Install(r.q)
            /\ last' = [NoCall EXCEPT !.op = "remove_item",
                                      !.item_id = item_id, !.exc = r.exc]
            /\ served' = NoRun

\* A call of get_and_move().
GetAndMove ==
    LET r == get_and_move(Here, 1)
    IN  /\ Install(r.q)
        /\ last' = [NoCall EXCEPT !.op = "get_and_move",
                                  !.returned = r.returned,
                                  !.newcurrent = r.newcurrent,
                                  !.exc = r.exc]
        /\ served' = IF r.exc # "none" \/ r.returned = NULL THEN NoRun
                     ELSE IF served.calls = 0 \/ served.calls > MaxPatch
                     THEN [from |-> current_queue_item, calls |-> 1,
                           returned |-> r.returned]
                     ELSE [served EXCEPT !.calls = @ + 1,
                                         !.returned = r.returned]

\* The Notifier marks the queue item of a failed branch's patch ignored.
UpdateQueueIgnoreDate ==
    \E patch_id \in PatchIds :
        /\ Install(update_queue_ignore_date(Here, patch_id))
        /\ last' = NoCall
        /\ UNCHANGED served

\* The Notifier records a compiled branch's base commit on its queue item.
UpdateQueueLatestBaseCommitSha ==
    \E patch_id \in PatchIds :
        /\ Install(update_queue_latest_base_commit_sha(Here, patch_id, SHA))
        /\ last' = NoCall
        /\ UNCHANGED served

\* A branch is created for a queued patch, drawn from patches.  The runs of
\* the queue do not follow the branch rows.
CreateBranchOf(patches) ==
    \E patch_id \in patches :
        LET r == createBranch(Here, patch_id)
        IN  /\ Install(r.q)
            /\ last' = NoCall
            /\ UNCHANGED served

CreateBranch == CreateBranchOf(PatchIds)

\* A clear_queue request.
ClearQueue ==
    /\ Install(clear_queue(Here))
    /\ last' = NoCall
    /\ served' = NoRun

\* The calls that change the ring: its items, their order and the pointer.
Next ==
    \/ Insert
    \/ Remove
    \/ GetAndMove
    \/ UpdateQueueIgnoreDate
    \/ CreateBranch
    \/ ClearQueue

Spec == Init /\ [][Next]_vars

\* The same with the Notifier's record of the base commit.
NextNotify ==
    \/ Insert
    \/ Remove
    \/ GetAndMove
    \/ UpdateQueueIgnoreDate
    \/ UpdateQueueLatestBaseCommitSha
    \/ CreateBranch
    \/ ClearQueue

SpecNotify == Init /\ [][NextNotify]_vars

\* The calls that decide where an item sits in the ring, on rings of up to
\* MaxRing items: every patch comes with the one message id, so that an
\* insert either finds the patch queued or queues it.
InsertRing == InsertOf(RingPatchIds, {1}, MaxRing + 1)
\* A call of remove_item(item_id) on a ring; which way the pointer went is
\* kept with the call.
RemoveRing ==
    \E item_id \in RingIds :
        LET r == remove_item(Here, item_id)
        IN  /\ Install(r.q)
            /\ last' = [NoCall EXCEPT !.op = "remove_item",
                                      !.item_id = item_id, !.exc = r.exc,
                                      !.path = IF r.exc = "none"
                                               THEN pointer_branch(Here, item_id)
                                               ELSE "none"]
            /\ served' = NoRun
CreateBranchRing == CreateBranchOf(RingPatchIds)

NextPlace ==
    \/ InsertRing
    \/ RemoveRing
    \/ GetAndMove
    \/ CreateBranchRing

SpecPlace == Init /\ [][NextPlace]_vars

\* ---- the branch pipeline
HerePipe == Pipe(branch, tasks, threads, history, Here)

InstallPipe(p) ==
    /\ InstallQueue(p.q)
    /\ branch' = p.branch
    /\ tasks' = p.tasks
    /\ threads' = p.threads
    /\ history' = p.history
    /\ UNCHANGED commands

\* The statuses of a stage that was aborted or has failed.
FailedStatuses == TerminalStatuses \ {"finished"}

\* The patch of the followed branch is queued, or queued again with another
\* patch set.
InsertPipe == InsertOf({BranchPatch}, MessageIds, MaxId)

\* Workflow.createBranch for the followed branch: the queue item is marked
\* processed and the branch row is created, or set back to new.
CreateBranchPipe ==
    LET r == createBranch(Here, BranchPatch)
        p == create_branch_row(Pipe(branch, tasks, threads, history, r.q))
    IN  /\ r.exc = "none"
        /\ p.history <= MaxHistory
        /\ InstallPipe(p)
        /\ run' = IF branch.status = "none"
                  THEN [steps |-> <<>>, quiet |-> TRUE]
                  ELSE NoRunOfSteps
        /\ last' = NoCall
        /\ UNCHANGED <<served, now, step, calls>>

\* A call of process(branch); merge_ok and configure_ok are how
\* convert_to_merge_commit and do_configure_sync end if they are called,
\* git_ok and fault, drawn from gits and faults, whether git and the
\* database do their work, patch_files, drawn from counts, what
\* get_patch_count returns.
ProcessOf(gits, faults, counts) ==
    \E merge_ok, configure_ok \in BOOLEAN, git_ok \in gits, fault \in faults,
       patch_files \in counts :
        LET r == process(HerePipe, now, merge_ok, configure_ok, git_ok, fault,
                         patch_files)
        IN  /\ r.p.history <= MaxHistory
            /\ InstallPipe(r.p)
            /\ step' = [at |-> history, from |-> branch.status,
                        delay |-> r.delay, exc |-> r.exc]
            /\ run' = IF /\ run.quiet /\ threads = {} /\ r.exc = "none"
                         /\ r.p.branch.status \notin FailedStatuses
                      THEN [run EXCEPT !.steps = Append(@, r.p.branch.status)]
                      ELSE NoRunOfSteps
            /\ last' = NoCall
            /\ UNCHANGED <<served, now, calls>>

\* The calls of process while git and the database do their work.
Process == ProcessOf({TRUE}, {"none"}, {BranchFiles})

\* The ways run_download_task ends once initialize_directories has returned.
DownloadOutcomes == {"COMPLETED", "FAILED", "ABORTED", "ABORTED late"}

\* The thread of applier.begin ends (run_download_task): the downloads have
\* succeeded and the Apply task is there, or one has failed, or an exception
\* was raised, before or after the Apply task was created; or
\* initialize_directories has raised ("died"), which is outside the try
\* block, so the thread ends and the Download task is left as it is.
DownloadDoneOf(outcomes) ==
    /\ "download" \in threads
    /\ \E outcome \in outcomes :
          tasks' = IF outcome = "COMPLETED"
                   THEN SaveTask(SaveTask(tasks, "Apply", "CREATED"),
                                 "Download", "COMPLETED")
                   ELSE IF outcome = "ABORTED late"
                   THEN SaveTask(SaveTask(tasks, "Apply", "CREATED"),
                                 "Download", "ABORTED")
                   ELSE IF outcome = "died" THEN tasks
                   ELSE SaveTask(tasks, "Download", outcome)
    /\ threads' = threads \ {"download"}
    /\ UNCHANGED <<qvars, branch, history, commands, now, step, run, calls>>

\* The thread of applier.begin ends, the directories being there.
DownloadDone == DownloadDoneOf(DownloadOutcomes)

\* The thread of applier.is_done ends (run_apply_task).
ApplyDone ==
    /\ "apply" \in threads
    /\ \E outcome \in {"COMPLETED", "FAILED", "ABORTED"} :
          tasks' = SaveTask(tasks, "Apply", outcome)
    /\ threads' = threads \ {"apply"}
    /\ UNCHANGED <<qvars, branch, history, commands, now, step, run, calls>>

\* The thread of compiler.is_done ends (run_make_task); its two saves of the
\* Ninja task are taken as one.
MakeDone ==
    /\ "make" \in threads
    /\ \E outcome \in {"COMPLETED", "FAILED"} :
          tasks' = SaveTask(tasks, "Ninja", outcome)
    /\ threads' = threads \ {"make"}
    /\ UNCHANGED <<qvars, branch, history, commands, now, step, run, calls>>

\* The thread of tester.is_done ends (run_test_task); its two saves of the
\* Run Test task are taken as one.
TestDone ==
    /\ "test" \in threads
    /\ \E outcome \in {"COMPLETED", "FAILED"} :
          tasks' = SaveTask(tasks, "Run Test", outcome)
    /\ threads' = threads \ {"test"}
    /\ UNCHANGED <<qvars, branch, history, commands, now, step, run, calls>>

\* Time passes.
Tick ==
    /\ now < MaxClock
    /\ now' = now + 1
    /\ UNCHANGED <<qvars, branch, tasks, threads, history, commands, step, run, calls>>

NextPipe ==
    \/ InsertPipe
    \/ CreateBranchPipe
    \/ Process
    \/ DownloadDone
    \/ ApplyDone
    \/ MakeDone
    \/ TestDone
    \/ Tick

SpecPipe == Init /\ [][NextPipe]_vars

\* ---- the pipeline where the environment fails
\* The clock stands still in these runs, and the patch of the branch is
\* queued with the one patch set.
InsertOnce == InsertOf({BranchPatch}, {1}, 1)

\* git may fail in applier.did_fail.
ProcessGit == ProcessOf(BOOLEAN, {"none"}, {BranchFiles})

NextGit ==
    \/ InsertOnce
    \/ CreateBranchPipe
    \/ ProcessGit
    \/ DownloadDone
    \/ ApplyDone
    \/ MakeDone
    \/ TestDone

SpecGit == Init /\ [][NextGit]_vars

\* The directories of the applier may be missing.
DownloadOrDie == DownloadDoneOf(DownloadOutcomes \cup {"died"})

NextDirectories ==
    \/ InsertOnce
    \/ CreateBranchPipe
    \/ Process
    \/ DownloadOrDie
    \/ ApplyDone
    \/ MakeDone
    \/ TestDone

SpecDirectories == Init /\ [][NextDirectories]_vars

\* The database may fail in the final notification of process.
ProcessDatabase == ProcessOf({TRUE}, NotifierFaults, {BranchFiles})

NextDatabase ==
    \/ InsertOnce
    \/ CreateBranchPipe
    \/ ProcessDatabase
    \/ DownloadDone
    \/ ApplyDone
    \/ MakeDone
    \/ TestDone

SpecDatabase == Init /\ [][NextDatabase]_vars

\* ---- the pipeline beside the queue's hand-out
\* The followed branch is stepped while the queue, which holds its patch and
\* the others, hands out items; every patch comes with the one message id and
\* the clock stands still.
InsertSkip == InsertOf(PatchIds, {1}, MaxPatch)

NextSkip ==
    \/ InsertSkip
    \/ CreateBranchPipe
    \/ Process
    \/ DownloadDone
    \/ ApplyDone
    \/ MakeDone
    \/ TestDone
    \/ GetAndMove

SpecSkip == Init /\ [][NextSkip]_vars

\* ---- two get_and_move requests at a time
\* apiv1.cfbot_get_and_move loads the CfbotQueue row and calls get_and_move
\* on it; the method reads and saves with no transaction and no lock, every
\* statement committed as it is made.  Each request is taken in the steps
\* between which another request's statements can fall.

\* The requests that have loaded their rows and have not returned.
InFlight == {c \in Callers : calls[c].pc \notin {"idle", "done"}}
AllIdle == \A c \in Callers : calls[c].pc = "idle"

\* Model.save(): the row is written as the request holds it in memory, and
\* inserted if it is not there any more.
SaveRow(its, id, row) == CreateRow(its, id, row)

\* A request has ended: what it returned or raised.
Ended(call, returned, newcurrent, exc) ==
    [call EXCEPT !.pc = "done", !.returned = returned,
                 !.newcurrent = newcurrent, !.exc = exc]

\* queue = CfbotQueue.objects.first(): the request holds the pointer as it is
\* now.  overlapped: another request is being served meanwhile; second: one
\* was when this one began.
GamLoad(c) ==
    /\ calls[c].pc = "idle"
    /\ calls' = [d \in Callers |->
                   IF d = c
                   THEN [pc |-> "loaded", cursor |-> current_queue_item,
                         from |-> current_queue_item, item |-> NULL,
                         row |-> NULL, moved |-> NULL, depth |-> 1,
                         returned |-> NULL, newcurrent |-> NULL,
                         exc |-> "none", overlapped |-> InFlight # {},
                         second |-> InFlight # {}]
                   ELSE IF d \in InFlight
                   THEN [calls[d] EXCEPT !.overlapped = TRUE]
                   ELSE calls[d]]
    /\ UNCHANGED <<qvars, branch, tasks, threads, history, commands, now, step, run>>

\* get_and_move up to self.save() (193-209): the current item is read, the
\* pointer moved in memory and the queue row saved.
GamMove(c) ==
    /\ calls[c].pc = "loaded"
    /\ LET cur == calls[c].cursor
           first_item == get_first_item(items)
       IN  IF ~Truthy(cur)
           THEN /\ calls' = [calls EXCEPT ![c] = Ended(@, NULL, NULL, "none")]
                /\ UNCHANGED current_queue_item
           ELSE IF cur \notin DOMAIN items
           THEN /\ calls' = [calls EXCEPT
                               ![c] = Ended(@, NULL, NULL, "DoesNotExist")]
                /\ UNCHANGED current_queue_item
           ELSE IF ~Truthy(items[cur].ll_next) /\ first_item = NULL
           THEN /\ calls' = [calls EXCEPT
                               ![c] = Ended(@, NULL, NULL, "AttributeError")]
                /\ UNCHANGED current_queue_item
           ELSE LET moved == next_pointer(items[cur], first_item)
                IN  IF moved \notin DOMAIN items
                    THEN /\ calls' = [calls EXCEPT
                                ![c] = Ended(@, NULL, NULL, "DoesNotExist")]
                         /\ UNCHANGED current_queue_item
                    ELSE /\ calls' = [calls EXCEPT
                                ![c].pc = "moved", ![c].item = cur,
                                ![c].row = items[cur], ![c].moved = moved,
                                ![c].cursor = moved]
                         /\ current_queue_item' = moved
    /\ UNCHANGED <<items, next_id, last, served,
                   branch, tasks, threads, history, commands, now, step, run>>

\* get_and_move from there (211-219): the item is saved with its
\* processed_date, and returned unless it is ignored.
GamMark(c) ==
    /\ calls[c].pc = "moved"
    /\ LET call == calls[c]
           row == [call.row EXCEPT !.processed_date = STAMP]
       IN  /\ items' = SaveRow(items, call.item, row)
           /\ calls' = [calls EXCEPT ![c] =
                 IF is_ignored(row)
                 THEN IF call.depth + 1 > RecursionLimit
                      THEN Ended(call, NULL, NULL, "RecursionError")
                      ELSE [call EXCEPT !.pc = "loaded", !.depth = @ + 1]
                 ELSE Ended(call, call.item, call.moved, "none")]
    /\ UNCHANGED <<current_queue_item, next_id, last, served,
                   branch, tasks, threads, history, commands, now, step, run>>

\* The responses are sent.
Respond ==
    /\ InFlight = {}
    /\ ~AllIdle
    /\ calls' = NoCalls
    /\ UNCHANGED <<qvars, branch, tasks, threads, history, commands, now, step, run>>

\* The ring is built, and its items are marked ignored, between the requests.
InsertIdle == AllIdle /\ InsertRing
IgnoreIdle == AllIdle /\ UpdateQueueIgnoreDate

NextAdvance ==
    \/ InsertIdle
    \/ IgnoreIdle
    \/ \E c \in Callers : GamLoad(c)
    \/ \E c \in Callers : GamMove(c)
    \/ \E c \in Callers : GamMark(c)
    \/ Respond

SpecAdvance == Init /\ [][NextAdvance]_vars

\* ---- process on a branch whose stage is to begin, statement by statement
\* apiv1.process_branch loads the branch row and calls process on it; process
\* and the begin it calls read and write with no lock on the branch (begin's
\* transaction holds its one insert, which others see at its end), and the
\* threads save their tasks when they come to it.

\* What process does for a branch whose stage is to begin: the task begin
\* creates, the thread it starts, the status when it has begun and when not.
stage_begun(status) ==
    IF status = "new"
    THEN [name |-> "Download", task |-> "EXECUTING", threads |-> {"download"},
          started |-> "applying", aborted |-> "applying-aborted"]
    ELSE IF status = "applied"
    THEN [name |-> "Compile", task |-> "CREATED", threads |-> {},
          started |-> "compiling", aborted |-> "compiling-aborted"]
    ELSE [name |-> "Test", task |-> "CREATED", threads |-> {},
          started |-> "testing", aborted |-> "testing-aborted"]

\* get_object_or_404(CfbotBranch): the request holds the row as it is now.
ProcessLoad(c, statuses) ==
    /\ calls[c].pc = "idle"
    /\ branch.status \in statuses
    /\ calls' = [calls EXCEPT ![c] =
                   [pc |-> "loaded", from |-> branch.status, row |-> branch,
                    found |-> FALSE, created |-> FALSE, delay |-> 0]]
    /\ UNCHANGED <<qvars, branch, tasks, threads, history, commands, now, step, run>>

\* process up to begin: clear_tasks, but for a new branch.
ProcessClear(c) ==
    /\ calls[c].pc = "loaded"
    /\ tasks' = IF calls[c].from = "new" THEN tasks ELSE NoTasks
    /\ calls' = [calls EXCEPT ![c].pc = "cleared"]
    /\ UNCHANGED <<qvars, branch, threads, history, commands, now, step, run>>

\* begin's query for the tasks of the branch.
BeginCheck(c) ==
    /\ calls[c].pc = "cleared"
    /\ calls' = [calls EXCEPT ![c].pc = "checked",
                              ![c].found = (DOMAIN tasks # {})]
    /\ UNCHANGED <<qvars, branch, tasks, threads, history, commands, now, step, run>>

\* begin from there, and the status process sets in memory for what it
\* returned.
BeginCreate(c) ==
    /\ calls[c].pc = "checked"
    /\ LET call == calls[c]
           stage == stage_begun(call.from)
       IN  IF call.found
           THEN /\ calls' = [calls EXCEPT
                               ![c].pc = "begun", ![c].delay = NULL,
                               ![c].row.status = stage.aborted]
                /\ UNCHANGED <<tasks, threads>>
           ELSE /\ calls' = [calls EXCEPT
                               ![c].pc = "begun", ![c].created = TRUE,
                               ![c].row.status = stage.started]
                /\ tasks' = SaveTask(tasks, stage.name, stage.task)
                /\ threads' = threads \cup stage.threads
    /\ UNCHANGED <<qvars, branch, history, commands, now, step, run>>

\* The final notification of process, which saves the row the request holds.
ProcessNotify(c) ==
    /\ calls[c].pc = "begun"
    /\ LET call == calls[c]
           n == notify_branch_update(
                    Pipe(call.row, tasks, threads, history, Here), now)
       IN  /\ n.history <= MaxHistory
           /\ InstallPipe(n)
           /\ step' = [at |-> history, from |-> call.from,
                       delay |-> call.delay, exc |-> "none"]
           /\ calls' = [calls EXCEPT ![c].pc = "done", ![c].row = n.branch]
    /\ run' = NoRunOfSteps
    /\ last' = NoCall
    /\ UNCHANGED <<served, now>>

\* process in one step, between the requests, for the other statuses.
ProcessWhole(stepped) ==
    /\ AllIdle
    /\ branch.status \notin stepped
    /\ Process

\* ---- two process requests for a new branch
NextTicks ==
    \/ AllIdle /\ InsertOnce
    \/ AllIdle /\ CreateBranchPipe
    \/ ProcessWhole({"new"})
    \/ \E c \in Callers : ProcessLoad(c, {"new"})
    \/ \E c \in Callers : ProcessClear(c)
    \/ \E c \in Callers : BeginCheck(c)
    \/ \E c \in Callers : BeginCreate(c)
    \/ \E c \in Callers : ProcessNotify(c)
    \/ Respond
    \/ DownloadDone
    \/ ApplyDone

SpecTicks == Init /\ [][NextTicks]_vars

\* ---- one process request beside the threads of the stage before
\* run_make_task saves its task twice: signal_done_cb saves it with the
\* status of the build, and the thread's last statement saves it again.

\* The thread of compiler.is_done between its two saves, for the status it
\* holds in memory.
MakeHolds == [COMPLETED |-> "make saved COMPLETED", FAILED |-> "make saved FAILED"]

\* do_compile_async has called signal_done_cb: the Ninja task is saved with
\* its status, and the thread holds it for its last statement.
MakeSignal ==
    /\ "make" \in threads
    /\ \E outcome \in {"COMPLETED", "FAILED"} :
          /\ tasks' = SaveTask(tasks, "Ninja", outcome)
          /\ threads' = (threads \ {"make"}) \cup {MakeHolds[outcome]}
    /\ UNCHANGED <<qvars, branch, history, commands, now, step, run, calls>>

\* make_task.save(), the last statement of run_make_task: the row is
\* written as the thread holds it, and inserted if it was deleted.
MakeSave ==
    \E outcome \in {"COMPLETED", "FAILED"} :
        /\ MakeHolds[outcome] \in threads
        /\ tasks' = SaveTask(tasks, "Ninja", outcome)
        /\ threads' = threads \ {MakeHolds[outcome]}
        /\ UNCHANGED <<qvars, branch, history, commands, now, step, run, calls>>

NextClean ==
    \/ AllIdle /\ InsertOnce
    \/ AllIdle /\ CreateBranchPipe
    \/ ProcessWhole({"applied", "compiled"})
    \/ \E c \in Callers : AllIdle /\ ProcessLoad(c, {"applied", "compiled"})
    \/ \E c \in Callers : ProcessClear(c)
    \/ \E c \in Callers : BeginCheck(c)
    \/ \E c \in Callers : BeginCreate(c)
    \/ \E c \in Callers : ProcessNotify(c)
    \/ Respond
    \/ DownloadDone
    \/ ApplyDone
    \/ MakeSignal
    \/ MakeSave
    \/ TestDone

SpecClean == Init /\ [][NextClean]_vars

\* ---- insert_item beside other calls on the queue
\* insert_item looks for the patch, removes the row of an older patch set (a
\* transaction of remove_item's own) and walks the ring before its
\* transaction begins (80-140); the transaction (142-187) then links the new
\* row to what the walk has found.  No row is locked in between.

\* The transaction of insert_item on the queue q, for a request that holds
\* the pointer cursor and has found the row target_item, with id target, in
\* its walk.  The transaction's writes are undone when it raises.
link_item(q, cursor, target, target_item, patch_id, message_id) ==
    LET nid == q.next_id IN
    \* unique_patch_id
    IF existing_patch(q.items, patch_id) # {} THEN Raise(q, "IntegrityError")
    \* special case if the queue is empty
    ELSE IF ~Truthy(cursor)
    THEN Return(Queue(CreateRow(q.items, nid,
                                NewItem(patch_id, message_id, NULL, NULL)),
                      nid, nid + 1), nid, NULL)
    ELSE IF target = NULL THEN Raise(q, "AttributeError")
    ELSE
    LET new == NewItem(patch_id, message_id, target,
                       IF Truthy(target_item.ll_next) THEN target_item.ll_next
                       ELSE 0)
        i1 == CreateRow(q.items, nid, new)
    IN  IF Truthy(target_item.ll_next) /\ target_item.ll_next \notin DOMAIN i1
        THEN Raise(q, "DoesNotExist")
        ELSE
        LET i2 == IF Truthy(target_item.ll_next)
                  THEN [i1 EXCEPT ![target_item.ll_next].ll_prev = nid]
                  ELSE i1
            i3 == SaveRow(i2, target, [target_item EXCEPT !.ll_next = nid])
            i4 == IF new.ll_next = 0
                  THEN [i3 EXCEPT ![nid] = [new EXCEPT !.ll_next = NULL]]
                  ELSE i3
        IN  Return(Queue(i4, q.cursor, nid + 1), nid, NULL)

\* The request's walk has ended: what it holds for its transaction.
Walked(q, patch_id, message_id) ==
    LET first_item == get_first_item(q.items)
        walk == find_target(q, first_item, first_item, NULL, NULL, WalkLimit)
    IN  [pc |-> IF walk[1] = "hang" THEN "done" ELSE "walked",
         patch_id |-> patch_id, message_id |-> message_id,
         cursor |-> q.cursor, target |-> walk[2],
         target_item |-> IF walk[2] = NULL THEN NULL ELSE q.items[walk[2]],
         exc |-> IF walk[1] = "hang" THEN "NonTermination" ELSE "none"]

\* insert_item up to its transaction (80-140).
InsertWalk(c) ==
    /\ calls[c].pc = "idle"
    /\ next_id + Cardinality(InFlight) <= MaxRing + 1
    /\ \E patch_id \in RingIds, message_id \in MessageIds :
          LET existing == existing_patch(items, patch_id)
              e == MinOf(existing)
              r == remove_item(Here, e)
          IN  IF Cardinality(existing) # 1
              THEN /\ calls' = [calls EXCEPT
                                  ![c] = Walked(Here, patch_id, message_id)]
                   /\ UNCHANGED <<items, current_queue_item, next_id>>
              ELSE IF same_message(items[e], message_id) \/ r.exc # "none"
              THEN /\ calls' = [calls EXCEPT
                                  ![c] = [pc |-> "done", exc |-> r.exc]]
                   /\ UNCHANGED <<items, current_queue_item, next_id>>
              ELSE /\ calls' = [calls EXCEPT
                                  ![c] = Walked(r.q, patch_id, message_id)]
                   /\ InstallQueue(r.q)
    /\ last' = NoCall
    /\ served' = NoRun
    /\ UNCHANGED <<branch, tasks, threads, history, commands, now, step, run>>

\* The transaction of insert_item (142-187).
InsertLink(c) ==
    /\ calls[c].pc = "walked"
    /\ LET call == calls[c]
           r == link_item(Here, call.cursor, call.target, call.target_item,
                          call.patch_id, call.message_id)
       IN  /\ InstallQueue(r.q)
           /\ calls' = [calls EXCEPT ![c] = [pc |-> "done", exc |-> r.exc]]
    /\ last' = NoCall
    /\ served' = NoRun
    /\ UNCHANGED <<branch, tasks, threads, history, commands, now, step, run>>

\* A call of remove_item for a row of the queue while a request is served.
RemoveBeside ==
    /\ InFlight # {}
    /\ \E item_id \in DOMAIN items :
          LET r == remove_item(Here, item_id)
          IN  r.exc = "none" /\ Install(r.q)
    /\ last' = NoCall
    /\ served' = NoRun

\* A call of get_and_move between the requests.
GetAndMoveIdle ==
    /\ AllIdle
    /\ LET r == get_and_move(Here, 1)
       IN  r.exc = "none" /\ Install(r.q)
    /\ last' = NoCall
    /\ served' = NoRun

NextLinks ==
    \/ GetAndMoveIdle
    \/ RemoveBeside
    \/ \E c \in Callers : InsertWalk(c)
    \/ \E c \in Callers : InsertLink(c)
    \/ Respond

SpecLinks == Init /\ [][NextLinks]_vars

\* ---- the pipeline where a patch file is not named .diff or .patch
\* get_patch_count counts the files of the working directory by their
\* names, whatever the attachments were that the download thread took for
\* patches: one of the patch files may be missed.
ProcessCount == ProcessOf({TRUE}, {"none"}, {BranchFiles - 1, BranchFiles})

NextCount ==
    \/ InsertOnce
    \/ CreateBranchPipe
    \/ ProcessCount
    \/ DownloadDone
    \/ ApplyDone
    \/ MakeDone
    \/ TestDone

SpecCount == Init /\ [][NextCount]_vars

\* ---- the apply thread, command by command
\* run_apply_task takes the Apply Patch commands of the Apply task in the
\* order of their names and calls perform_apply for each until one fails.

\* A command that is marked as failed although patches before it failed.
command_status_each(has_failed, applied) ==
    IF applied THEN "COMPLETED" ELSE "FAILED"

\* run_apply_task: the status of a command, for what perform_apply returns
\* (it is not called once a command has failed).
command_status(has_failed, applied) ==
    IF ~has_failed /\ applied THEN "COMPLETED"
    ELSE IF has_failed THEN "IGNORED"
    ELSE "FAILED"

\* has_failed of run_apply_task.
has_failed(cmds) == \E k \in 1..Len(cmds) : cmds[k] = "FAILED"

\* The commands run_apply_task has not come to.
Waiting(cmds) == {k \in 1..Len(cmds) : cmds[k] = "CREATED"}

\* The thread loads the commands the download thread has created, one for
\* each patch file.
ApplyCommands ==
    /\ "apply" \in threads
    /\ \E n \in 0..MaxCommands : commands' = [k \in 1..n |-> "CREATED"]
    /\ threads' = (threads \ {"apply"}) \cup {"apply loop"}
    /\ UNCHANGED <<qvars, branch, tasks, history, now, step, run, calls>>

\* One turn of the loop: perform_apply returns True or False, or raises
\* (it catches CalledProcessError only), which ends the thread with the
\* command and the task ABORTED.
ApplyCommand ==
    /\ "apply loop" \in threads
    /\ Waiting(commands) # {}
    /\ LET k == MinOf(Waiting(commands)) IN
       \E outcome \in {"True", "False", "raise"} :
          IF outcome = "raise" /\ ~has_failed(commands)
          THEN /\ commands' = [commands EXCEPT ![k] = "ABORTED"]
               /\ tasks' = SaveTask(tasks, "Apply", "ABORTED")
               /\ threads' = threads \ {"apply loop"}
          ELSE /\ commands' = [commands EXCEPT ![k] =
                      command_status(has_failed(commands), outcome = "True")]
               /\ UNCHANGED <<tasks, threads>>
    /\ UNCHANGED <<qvars, branch, history, now, step, run, calls>>

\* The loop has ended: the Apply task is saved with its status.
ApplyFinish ==
    /\ "apply loop" \in threads
    /\ Waiting(commands) = {}
    /\ tasks' = SaveTask(tasks, "Apply",
                         IF has_failed(commands) THEN "FAILED" ELSE "COMPLETED")
    /\ threads' = threads \ {"apply loop"}
    /\ UNCHANGED <<qvars, branch, history, commands, now, step, run, calls>>

NextApply ==
    \/ InsertOnce
    \/ CreateBranchPipe
    \/ Process
    \/ DownloadDone
    \/ ApplyCommands
    \/ ApplyCommand
    \/ ApplyFinish

SpecApply == Init /\ [][NextApply]_vars

\* ---- the branch ticked for ever
\* The branch is created, and created again once an attempt has ended, by
\* Workflow.createBranch or by the create_branch view; process is called again
\* and again and every thread ends.  The history rows are counted up to
\* MaxHistory and no further, so that the calls never run out.

\* apiv1.create_branch as far as the branch goes: update_or_create with the
\* status new and the patch_count len(attachments), and the history row of a
\* created branch.
create_branch_view(p) ==
    IF p.branch.status = "none"
    THEN [p EXCEPT !.branch = [NoBranch EXCEPT !.status = "new",
                                               !.patch_count = BranchFiles],
                   !.history = add_branch_to_history(@)]
    ELSE [p EXCEPT !.branch.status = "new",
                   !.branch.patch_count = BranchFiles]

\* The rows of the pipeline with the history counted up to MaxHistory.
UpToMaxHistory(p) ==
    [p EXCEPT !.history = IF @ > MaxHistory THEN MaxHistory ELSE @]

\* No attempt on the branch is under way.
NoAttempt == branch.status \in {"none"} \cup TerminalStatuses

\* Workflow.createBranch, for a first attempt or a retry.
CreateBranchRetry ==
    LET r == createBranch(Here, BranchPatch)
        p == create_branch_row(Pipe(branch, tasks, threads, history, r.q))
    IN  /\ NoAttempt
        /\ r.exc = "none"
        /\ InstallPipe(UpToMaxHistory(p))
        /\ run' = NoRunOfSteps
        /\ last' = NoCall
        /\ UNCHANGED <<served, now, step, calls>>

\* The create_branch view, for a first attempt or a retry; it answers 404
\* when the patch has no queue item, and leaves the item as it is.
CreateBranchView ==
    /\ NoAttempt
    /\ existing_patch(items, BranchPatch) # {}
    /\ InstallPipe(UpToMaxHistory(create_branch_view(HerePipe)))
    /\ run' = NoRunOfSteps
    /\ last' = NoCall
    /\ UNCHANGED <<served, now, step, calls>>

\* A tick: a call of process(branch), git and the database doing their work.
ProcessTick ==
    \E merge_ok, configure_ok \in BOOLEAN :
        LET r == process(HerePipe, now, merge_ok, configure_ok, TRUE, "none",
                         BranchFiles)
        IN  /\ InstallPipe(UpToMaxHistory(r.p))
            /\ step' = [at |-> history, from |-> branch.status,
                        delay |-> r.delay, exc |-> r.exc]
            /\ run' = NoRunOfSteps
            /\ last' = NoCall
            /\ UNCHANGED <<served, now, calls>>

NextTicked ==
    \/ InsertOnce
    \/ CreateBranchRetry
    \/ CreateBranchView
    \/ ProcessTick
    \/ DownloadDone
    \/ ApplyDone
    \/ MakeDone
    \/ TestDone

\* The branch is ticked again and again, and every thread that was started
\* ends.
SpecTicked ==
    /\ Init /\ [][NextTicked]_vars
    /\ WF_vars(ProcessTick)
    /\ WF_vars(DownloadDone)
    /\ WF_vars(ApplyDone)
    /\ WF_vars(MakeDone)
    /\ WF_vars(TestDone)

\* ------------------------------------------------------------------ claims
Rows == DOMAIN items
Heads == {i \in Rows : items[i].ll_prev = NULL}
Tails == {i \in Rows : items[i].ll_next = NULL}

\* The ids met by following ll_next from row i, at most n of them.
RECURSIVE Follow(_, _, _)
Follow(its, i, n) ==
    IF n = 0 \/ i \notin DOMAIN its THEN <<>>
    ELSE <<i>> \o Follow(its, its[i].ll_next, n - 1)

\* The list from the head on (one id more than there are rows is asked for, so
\* that a list that does not end shows as too long).
ListOrder(its) ==
    LET heads == {i \in DOMAIN its : its[i].ll_prev = NULL}
    IN  IF heads = {} THEN <<>>
        ELSE Follow(its, CHOOSE h \in heads : TRUE, Cardinality(DOMAIN its) + 1)

Range(seq) == {seq[k] : k \in 1..Len(seq)}

\* C1: whenever the queue holds an item, exactly one item has ll_prev NULL and
\* exactly one has ll_next NULL, and in a queue of one item they are that item.
OneHeadOneTail ==
    Rows # {} =>
        /\ Cardinality(Heads) = 1
        /\ Cardinality(Tails) = 1
        /\ Cardinality(Rows) = 1 => Heads = Tails

\* C1 happens: a removal has left a queue of one item.
OneHeadOneTailWitness ==
    /\ last.op = "remove_item" /\ last.exc = "none"
    /\ Cardinality(Rows) = 1
    /\ Heads = Rows /\ Tails = Rows

\* C2: the items form one doubly linked chain: the item before an item names
\* it as its next, the item after an item names it as its previous, and
\* following ll_next from the head visits every item exactly once.
LinkedChain ==
    /\ \A i \in Rows :
          items[i].ll_prev # NULL =>
              /\ items[i].ll_prev \in Rows
              /\ items[items[i].ll_prev].ll_next = i
    /\ \A i \in Rows :
          items[i].ll_next # NULL =>
              /\ items[i].ll_next \in Rows
              /\ items[items[i].ll_next].ll_prev = i
    /\ Rows # {} =>
          /\ Len(ListOrder(items)) = Cardinality(Rows)
          /\ Range(ListOrder(items)) = Rows

\* C2 happens: an insert has linked a second item behind the first.
LinkedChainWitness ==
    /\ last.op = "insert_item" /\ last.path = "created"
    /\ Cardinality(Rows) = 2
    /\ items[last.returned].ll_prev \in Rows

\* C3: no two queue items have the same patch_id.
UniquePatchId ==
    \A i, j \in Rows : i # j => items[i].patch_id # items[j].patch_id

\* C3 happens: a patch that was queued has been inserted again, with a new
\* message id, next to another patch.
UniquePatchIdWitness ==
    /\ last.op = "insert_item" /\ last.path = "replaced" /\ last.exc = "none"
    /\ Cardinality(Rows) = 2

\* C4: the pointer is NULL exactly when the queue has no items, and otherwise
\* names an item of the queue.
PointerValid ==
    /\ current_queue_item = NULL <=> Rows = {}
    /\ current_queue_item # NULL => current_queue_item \in Rows

\* C4 happens: the only item, which the pointer named, has been removed.
PointerValidWitness ==
    /\ last.op = "remove_item" /\ last.exc = "none"
    /\ Rows = {}
    /\ current_queue_item = NULL

\* The head of the list.
HeadItem == CHOOSE h \in Heads : TRUE

\* The ids in ring order from row c on: the list from c to the tail, then from
\* the head to the item before c.
RingFrom(its, c) ==
    LET order == ListOrder(its)
        at == CHOOSE k \in 1..Len(order) : order[k] = c
    IN  SubSeq(order, at, Len(order)) \o SubSeq(order, 1, at - 1)

\* The first item at or after row c, in ring order, that is not ignored.
FirstNotIgnored(its, c) ==
    LET ring == RingFrom(its, c)
        k == CHOOSE k \in 1..Len(ring) :
                 /\ its[ring[k]].ignore_date = NULL
                 /\ \A j \in 1..(k - 1) : its[ring[j]].ignore_date # NULL
    IN  ring[k]

NoneIgnored == \A i \in Rows : items[i].ignore_date = NULL
AllIgnored == \A i \in Rows : items[i].ignore_date # NULL

\* C5: on a queue whose pointer names an item that is not ignored,
\* get_and_move returns that item and the item the pointer names afterwards;
\* the returned item's processed_date is set, and the pointer has gone to the
\* returned item's ll_next, or to the head when that is NULL.
GetAndMoveReturns ==
    [][(/\ last'.op = "get_and_move"
        /\ current_queue_item \in Rows
        /\ items[current_queue_item].ignore_date = NULL)
       => (/\ last'.exc = "none"
           /\ last'.returned = current_queue_item
           /\ Rows' = Rows
           /\ items'[current_queue_item].processed_date # NULL
           /\ current_queue_item' =
                 IF items[current_queue_item].ll_next # NULL
                 THEN items[current_queue_item].ll_next
                 ELSE HeadItem
           /\ last'.newcurrent = current_queue_item')]_vars

\* C5 happens: get_and_move has returned the tail of a queue of two items and
\* the pointer has wrapped to the head.
GetAndMoveReturnsWitness ==
    /\ last.op = "get_and_move" /\ last.exc = "none"
    /\ Cardinality(Rows) = 2
    /\ last.returned \in Tails
    /\ items[last.returned].ignore_date = NULL
    /\ current_queue_item \in Heads

\* C6: get_and_move never returns an ignored item: the item it returns is the
\* first item at or after the pointer, in ring order, whose ignore_date is
\* NULL.
IgnoredSkipped ==
    [][(last'.op = "get_and_move" /\ last'.returned # NULL)
       => (/\ current_queue_item \in Rows
           /\ last'.returned \in Rows
           /\ items[last'.returned].ignore_date = NULL
           /\ items'[last'.returned].ignore_date = NULL
           /\ last'.returned = FirstNotIgnored(items, current_queue_item))]_vars

\* C6 happens: the pointer named an ignored item and get_and_move has returned
\* another.
IgnoredSkippedWitness ==
    /\ last.op = "get_and_move" /\ last.returned # NULL
    /\ served.calls = 1
    /\ served.from \in Rows
    /\ items[served.from].ignore_date # NULL
    /\ last.returned # served.from

\* C7: on a queue that is not empty and whose items are all ignored,
\* get_and_move ends and returns (None, None).
AllIgnoredReturnsNone ==
    [][(last'.op = "get_and_move" /\ Rows # {} /\ AllIgnored)
       => (/\ last'.exc = "none"
           /\ last'.returned = NULL
           /\ last'.newcurrent = NULL)]_vars

\* C8: in a queue of n items of which none is ignored, the k-th of a run of
\* get_and_move calls returns the k-th item in ring order from the item the
\* pointer named before the run, wrapping from the tail to the head: n calls
\* return every item once, and the call after them returns the first again.
RoundRobin ==
    (served.calls > 0 /\ NoneIgnored) =>
        LET ring == RingFrom(items, served.from)
            n == Cardinality(Rows)
        IN  /\ served.from \in Rows
            /\ Len(ring) = n
            /\ Range(ring) = Rows
            /\ served.returned = ring[((served.calls - 1) % n) + 1]
            /\ served.calls = n + 1 => served.returned = served.from

\* C8 happens: the third call of a run on a queue of two items, none ignored.
RoundRobinWitness ==
    /\ served.calls = 3
    /\ Cardinality(Rows) = 2
    /\ NoneIgnored
    /\ last.op = "get_and_move"

\* C9: insert_item of a patch and message id that a row holds returns that
\* row and changes nothing: not the rows, their links or dates, nor the
\* pointer.
InsertSameIsNoOp ==
    [][(/\ last'.op = "insert_item"
        /\ \E i \in Rows : /\ items[i].patch_id = last'.patch_id
                           /\ items[i].message_id = last'.message_id)
       => (/\ last'.exc = "none"
           /\ last'.returned \in Rows
           /\ items[last'.returned].patch_id = last'.patch_id
           /\ items[last'.returned].message_id = last'.message_id
           /\ items' = items
           /\ current_queue_item' = current_queue_item)]_vars

\* C9 happens: a patch set has been inserted a second time, into a queue of
\* two items with a processed and an ignored one among them.
InsertSameIsNoOpWitness ==
    /\ last.op = "insert_item" /\ last.path = "existing"
    /\ Cardinality(Rows) = 2
    /\ \E i \in Rows : items[i].processed_date # NULL
    /\ \E i \in Rows : items[i].ignore_date # NULL

\* C10: insert_item of a queued patch with another message id removes the
\* patch's row and inserts a new one: afterwards exactly one row has the
\* patch, it has the new message id and no processed_date, ignore_date or
\* last_base_commit_sha, and if the replaced row was the only one the pointer
\* names the new row.
InsertReplaces ==
    [][(/\ last'.op = "insert_item"
        /\ \E i \in Rows : /\ items[i].patch_id = last'.patch_id
                           /\ items[i].message_id # last'.message_id)
       => (/\ last'.exc = "none"
           /\ last'.returned \in Rows' \ Rows
           /\ \A i \in Rows : items[i].patch_id = last'.patch_id => i \notin Rows'
           /\ {i \in Rows' : items'[i].patch_id = last'.patch_id}
                 = {last'.returned}
           /\ items'[last'.returned].message_id = last'.message_id
           /\ items'[last'.returned].processed_date = NULL
           /\ items'[last'.returned].ignore_date = NULL
           /\ items'[last'.returned].last_base_commit_sha = NULL
           /\ Cardinality(Rows) = 1 => current_queue_item' = last'.returned)]_vars

\* C10 happens: the only item of the queue has been replaced.
InsertReplacesWitness ==
    /\ last.op = "insert_item" /\ last.path = "replaced" /\ last.exc = "none"
    /\ Rows = {last.returned}
    /\ current_queue_item = last.returned

\* C11: remove_item(x) takes x out of the queue and links its former
\* neighbours to each other.  If the pointer named x it names x's ll_next
\* afterwards, or, x having been the tail, the head of the remaining list, or
\* nothing if x was the only item; a pointer that named another item stays.
RemoveMovesPointer ==
    [][(last'.op = "remove_item" /\ last'.exc = "none")
       => LET x == last'.item_id
              prev == items[x].ll_prev
              next == items[x].ll_next
          IN  /\ x \in Rows
              /\ Rows' = Rows \ {x}
              /\ prev # NULL => items'[prev].ll_next = next
              /\ next # NULL => items'[next].ll_prev = prev
              /\ current_queue_item # x
                    => current_queue_item' = current_queue_item
              /\ (current_queue_item = x /\ next # NULL)
                    => current_queue_item' = next
              /\ (current_queue_item = x /\ next = NULL /\ Rows' # {})
                    => /\ current_queue_item' \in Rows'
                       /\ items'[current_queue_item'].ll_prev = NULL
              /\ (current_queue_item = x /\ Rows' = {})
                    => current_queue_item' = NULL]_vars

\* C11 happens: the pointer named the tail of a list of three items, the tail
\* has been removed and the pointer names the head of the two that remain.
RemoveMovesPointerWitness ==
    /\ last.op = "remove_item" /\ last.exc = "none" /\ last.path = "to_first"
    /\ Cardinality(Rows) = 2
    /\ current_queue_item = HeadItem

\* C12: insert_item and remove_item keep the order, from head to tail, of
\* the items that are in the queue before and after the call: the list
\* before the call without the items that went is the list after the call
\* without the items that came, and both lists hold every row.
OrderKept ==
    [][(last'.op \in {"insert_item", "remove_item"} /\ last'.exc = "none")
       => LET before == ListOrder(items)
              after == ListOrder(items')
              Stays(i) == i \in Rows'
              Was(i) == i \in Rows
          IN  /\ Range(before) = Rows
              /\ Range(after) = Rows'
              /\ SelectSeq(before, Stays) = SelectSeq(after, Was)]_vars

\* C12 happens: an insert has put a new item between the two items of the
\* queue.
OrderKeptWitness ==
    /\ last.op = "insert_item" /\ last.path = "created" /\ last.exc = "none"
    /\ Cardinality(Rows) = 3
    /\ items[last.returned].ll_prev # NULL
    /\ items[last.returned].ll_next # NULL

\* The last item of the run of processed items that follows row c in ring
\* order, or c itself when the item after c is not processed.
EndOfProcessedBlock(its, c) ==
    LET ring == RingFrom(its, c)
        n == CHOOSE k \in 1..Len(ring) :
                 /\ \A j \in 2..k : its[ring[j]].processed_date # NULL
                 /\ k < Len(ring) => its[ring[k + 1]].processed_date = NULL
    IN  ring[n]

\* The item before row x in ring order, the ring read from row c on.
RingBefore(its, c, x) ==
    LET ring == RingFrom(its, c)
        at == CHOOSE k \in 1..Len(ring) : ring[k] = x
    IN  IF at = 1 THEN ring[Len(ring)] ELSE ring[at - 1]

\* C13: insert_item of a patch that is not queued, into a queue that is not
\* empty, puts the new item immediately after the run of processed items
\* that follows the pointer's item in ring order.
FairPosition ==
    [][(/\ last'.op = "insert_item" /\ last'.path = "created"
        /\ last'.exc = "none"
        /\ Rows # {})
       => RingBefore(items', current_queue_item, last'.returned)
             = EndOfProcessedBlock(items, current_queue_item)]_vars

\* Three patches a, b, c (rows 1, 2, 3) have been inserted into the empty
\* queue and no item has been handed out since.
ThreeInserted ==
    /\ next_id = 4 /\ Rows = {1, 2, 3}
    /\ \A i \in Rows : items[i].processed_date = NULL

\* ... and then get_and_move has handed out a.
ThreeInsertedOneServed ==
    /\ next_id = 4 /\ Rows = {1, 2, 3}
    /\ last.op = "get_and_move" /\ last.returned = 1
    /\ items[1].processed_date # NULL
    /\ items[2].processed_date = NULL /\ items[3].processed_date = NULL

\* ... and then c has been removed.
ThreeInsertedLastRemoved ==
    /\ next_id = 4 /\ Rows = {1, 2}
    /\ last.op = "remove_item" /\ last.item_id = 3 /\ last.exc = "none"
    /\ items[1].processed_date # NULL /\ items[2].processed_date = NULL

\* C14: after insert_item of a, b, c into the empty queue, with no
\* get_and_move between them, each new item is linked directly after the
\* pointer's item (the list is a, c, b); one get_and_move returns a and leaves
\* the pointer on c; remove_item of c then moves the pointer to b; and the
\* next get_and_move moves the pointer round to a.
InsertedAfterPointer ==
    [][/\ ThreeInserted
          => /\ current_queue_item = 1
             /\ ListOrder(items) = <<1, 3, 2>>
             /\ last'.op = "get_and_move"
                   => last'.returned = 1 /\ current_queue_item' = 3
       /\ (ThreeInsertedOneServed /\ last'.op = "remove_item"
             /\ last'.item_id = 3)
          => current_queue_item' = 2
       /\ (ThreeInsertedLastRemoved /\ last'.op = "get_and_move")
          => current_queue_item' = 1]_vars

\* C15: insert_item of a patch that is not queued, into a queue that is not
\* empty, leaves the pointer and the head of the list as they were and
\* changes no existing item's processed_date or ignore_date.
InsertKeepsPointer ==
    [][(/\ last'.op = "insert_item" /\ last'.path = "created"
        /\ last'.exc = "none"
        /\ Rows # {})
       => (/\ current_queue_item' = current_queue_item
           /\ Rows' = Rows \cup {last'.returned}
           /\ last'.returned \notin Rows
           /\ {i \in Rows' : items'[i].ll_prev = NULL} = Heads
           /\ \A i \in Rows :
                 /\ items'[i].processed_date = items[i].processed_date
                 /\ items'[i].ignore_date = items[i].ignore_date)]_vars

\* C15 happens: a second patch has been inserted behind an item that is
\* processed and ignored.
InsertKeepsPointerWitness ==
    /\ last.op = "insert_item" /\ last.path = "created" /\ last.exc = "none"
    /\ Cardinality(Rows) = 2
    /\ current_queue_item \in Rows \ {last.returned}
    /\ items[current_queue_item].processed_date # NULL
    /\ items[current_queue_item].ignore_date # NULL
    /\ items[current_queue_item].ll_prev = NULL

\* The edges of the pipeline.
PipelineEdges ==
    {<<"new", "applying">>, <<"new", "applying-aborted">>,
     <<"applying", "applying">>, <<"applying", "applied">>,
     <<"applying", "applying-failed">>,
     <<"applied", "compiling">>, <<"applied", "compiling-aborted">>,
     <<"compiling", "compiling">>, <<"compiling", "compiled">>,
     <<"compiling", "compiling-failed">>,
     <<"compiled", "testing">>, <<"compiled", "testing-aborted">>,
     <<"testing", "testing">>, <<"testing", "tested">>,
     <<"testing", "testing-failed">>,
     <<"tested", "finished">>}
        \cup {<<s, s>> : s \in TerminalStatuses}

\* C16: a call of process that returns takes the branch status along an edge
\* of the pipeline (new to applying or applying-aborted, ..., tested to
\* finished, a terminal status to itself); one that raises leaves it.
StatusAlongEdges ==
    [][step' # step
       => IF step'.exc = "none"
          THEN <<branch.status, branch'.status>> \in PipelineEdges
          ELSE branch'.status = branch.status]_vars

\* C16 happens: a call on a tested branch has returned.
StatusAlongEdgesWitness ==
    /\ step.from = "tested" /\ step.exc = "none"
    /\ branch.status = "finished"

SevenStatuses ==
    <<"applying", "applied", "compiling", "compiled", "testing", "tested",
      "finished">>

TenStatuses ==
    <<"applying", "applying", "applied", "compiling", "compiling", "compiled",
      "testing", "testing", "tested", "finished">>

TerminalStays ==
    [][(step' # step /\ branch.status \in TerminalStatuses)
       => (/\ step'.exc = "none"
           /\ branch'.status = branch.status
           /\ step'.delay = NULL)]_vars

\* C19 happens: a finished branch has been processed once more, twice.
TerminalStaysWitness ==
    /\ run.quiet /\ Len(run.steps) = 12
    /\ run.steps[10] = "finished" /\ run.steps[12] = "finished"
    /\ step.from = "finished" /\ step.delay = NULL
    /\ branch.status = "finished"

\* C20: a call of process on a branch in a terminal status changes nothing
\* but the history: needs_rebase_since and failing_since of the branch, its
\* tasks, and ignore_date and last_base_commit_sha of the queue items stay.
TerminalChangesNothing ==
    [][(step' # step /\ branch.status \in TerminalStatuses)
       => (/\ branch'.needs_rebase_since = branch.needs_rebase_since
           /\ branch'.failing_since = branch.failing_since
           /\ tasks' = tasks
           /\ Rows' = Rows
           /\ \A i \in Rows :
                 /\ items'[i].ignore_date = items[i].ignore_date
                 /\ items'[i].last_base_commit_sha
                       = items[i].last_base_commit_sha)]_vars

\* C22: a call of process that moves the branch into compiling-aborted or
\* compiling-failed leaves needs_rebase_since and failing_since at the time
\* of the call; one that moves it into testing-aborted or testing-failed
\* leaves needs_rebase_since NULL and failing_since at the time of the call.
StampedAtTransition ==
    [][(step' # step /\ step'.exc = "none" /\ branch'.status # step'.from)
       => /\ branch'.status \in {"compiling-aborted", "compiling-failed"}
             => /\ branch'.needs_rebase_since = now
                /\ branch'.failing_since = now
          /\ branch'.status \in {"testing-aborted", "testing-failed"}
             => /\ branch'.needs_rebase_since = NULL
                /\ branch'.failing_since = now]_vars

\* The tests have failed at the second reading of the clock, and the branch
\* is stamped with it.
StampedAtTransitionWitness ==
    /\ branch.status = "testing-failed"
    /\ step.from = "testing"
    /\ now > 1
    /\ branch.failing_since = now
    /\ branch.needs_rebase_since = NULL

\* The queue items of the followed branch's patch.
BranchItems(its) == {i \in DOMAIN its : its[i].patch_id = BranchPatch}

\* C23: after a call of process that leaves the branch in compiled or
\* compiling-failed, the queue item of the branch's patch holds the base
\* commit the branch took in its apply stage (the call has not changed it);
\* and a queue item keeps the base commit it holds for as long as it is in
\* the queue, so up to finished and after.
BaseCommitOnItem ==
    [][/\ (step' # step /\ step'.exc = "none"
           /\ branch'.status \in {"compiled", "compiling-failed"})
          => /\ branch'.base_commit_sha = SHA
             /\ branch'.base_commit_sha = branch.base_commit_sha
             /\ \A i \in BranchItems(items') :
                   items'[i].last_base_commit_sha = branch'.base_commit_sha
       /\ \A i \in DOMAIN items \cap DOMAIN items' :
             items[i].last_base_commit_sha # NULL
             => items'[i].last_base_commit_sha = items[i].last_base_commit_sha
      ]_vars

\* The branch has gone through the ten calls to finished, and its patch's
\* queue item holds the base commit of the branch.
BaseCommitOnItemWitness ==
    /\ branch.status = "finished"
    /\ run.quiet
    /\ Len(run.steps) = 10
    /\ branch.base_commit_sha = SHA
    /\ \E i \in BranchItems(items) :
          items[i].last_base_commit_sha = branch.base_commit_sha

\* The statuses of a compile or test stage that was aborted or has failed.
IgnoringStatuses ==
    {"compiling-aborted", "compiling-failed", "testing-aborted",
     "testing-failed"}

\* C21: after a call of process that leaves the branch in compiling-aborted,
\* compiling-failed, testing-aborted or testing-failed, the queue item of the
\* branch's patch has an ignore_date; an item keeps its ignore_date for as
\* long as it is in the queue; and get_and_move never returns an item that
\* has one.
FailedBranchSkipped ==
    [][/\ (step' # step /\ step'.exc = "none"
           /\ branch'.status \in IgnoringStatuses)
          => \A i \in BranchItems(items') : items'[i].ignore_date # NULL
       /\ \A i \in DOMAIN items \cap DOMAIN items' :
             items[i].ignore_date # NULL => items'[i].ignore_date # NULL
       /\ (last'.op = "get_and_move" /\ last'.returned # NULL)
          => /\ last'.returned \in DOMAIN items
             /\ items[last'.returned].ignore_date = NULL
      ]_vars

\* The branch has failed, the pointer stood on its patch's item, and
\* get_and_move has passed it over and returned the item after it.
FailedBranchSkippedWitness ==
    /\ branch.status \in IgnoringStatuses
    /\ last.op = "get_and_move"
    /\ served.calls = 1
    /\ \E i \in BranchItems(items) :
          /\ items[i].ignore_date # NULL
          /\ served.from = i
          /\ last.returned # NULL
          /\ last.returned # i

\* The statuses in which process calls a driver of a stage.
StageStatuses ==
    {"new", "applying", "applied", "compiling", "compiled", "testing"}

\* The errors begin, is_done and did_fail of the drivers raise.
DriverErrors == {"Exception", "ValueError", "AttributeError"}

\* C24 as claimed: no call of process on a branch in a stage ends in the
\* error a driver of the stage has raised (the call returns, the branch in
\* the stage's -aborted status and the delay None).
DriverErrorAborts ==
    [][(step' # step /\ step'.from \in StageStatuses)
       => step'.exc \notin DriverErrors]_vars

\* initialize_directories has raised in the thread of applier.begin: the
\* thread is gone and the Download task is still as begin created it.
InitializeFailed ==
    /\ "download" \notin threads
    /\ "Download" \in DOMAIN tasks
    /\ tasks["Download"] = "EXECUTING"

\* C25 as claimed: when the directories of the applier cannot be set up, the
\* branch is in applying-aborted, the call on the new branch has returned no
\* delay, and the branch has no Download task.
MissingDirectoriesAbort ==
    InitializeFailed
    => /\ branch.status = "applying-aborted"
       /\ step.delay = NULL
       /\ "Download" \notin DOMAIN tasks

\* C30 as claimed: no call of process ends in the error of a failure in the
\* Notifier (the call returns the new status and the delay, and the branch
\* row holds the new status).
NotifierFailureKept ==
    [][step' # step => step'.exc # "DatabaseError"]_vars

\* The item after row i in the ring.
RingNext(i) ==
    IF Truthy(items[i].ll_next) THEN items[i].ll_next
    ELSE get_first_item(items)

\* C27 as claimed: when two get_and_move requests that were served at
\* overlapping times have both returned, on a ring of two or more items none
\* of which is ignored, they have returned two different items and the
\* pointer is two items on from where the first of them found it.
AdvanceSerialized ==
    \A c, d \in Callers :
        (/\ calls[c].pc = "done" /\ calls[d].pc = "done"
         /\ calls[c].overlapped /\ ~calls[c].second /\ calls[d].second
         /\ NoneIgnored
         /\ Cardinality(Rows) >= 2)
        => /\ calls[c].returned # NULL
           /\ calls[d].returned # NULL
           /\ calls[c].returned # calls[d].returned
           /\ current_queue_item = RingNext(RingNext(calls[c].from))

\* The requests of now for which begin has run.
BeginRan == {c \in Callers : calls[c].pc \in {"checked", "begun", "done"}}

\* C29 as claimed: of the process requests made for a new branch at
\* overlapping times, one runs begin, and one Download task is created.
TicksSerialized ==
    /\ Cardinality(BeginRan) <= 1
    /\ Cardinality({c \in BeginRan : calls[c].created}) <= 1

\* C26 as claimed: when a process request on an applied or compiled branch
\* has saved the branch, begin has found no task and the status is compiling
\* or testing, and the one task of the branch is the Compile, or the Test,
\* task that begin created.
StageStartsClean ==
    [][\A c \in Callers :
          (calls[c].pc = "begun" /\ calls'[c].pc = "done"
           /\ calls[c].from \in {"applied", "compiled"})
          => /\ ~calls[c].found
             /\ branch'.status = stage_begun(calls[c].from).started
             /\ DOMAIN tasks' = {stage_begun(calls[c].from).name}]_vars

\* C28 as claimed: whatever calls of insert_item and remove_item fall between
\* the steps of an insert_item, the committed queue has one head and one
\* tail, the links of its items agree, and no item has 0 for its ll_next.
CommittedRingSound ==
    /\ OneHeadOneTail
    /\ LinkedChain
    /\ \A i \in Rows : items[i].ll_next # 0

\* C31 as claimed: a call of process that returns has returned the delay
\* None exactly when it leaves the branch finished, aborted or failed.
DelayNullIffEnded ==
    [][(step' # step /\ step'.exc = "none")
       => (step'.delay = NULL <=> branch'.status \in TerminalStatuses)]_vars

\* The tasks a stage has to have completed for its success status.
StageTasks ==
    [applied |-> {"Download", "Apply"}, compiled |-> {"Meson Setup", "Ninja"},
     tested |-> {"Run Test"}]

\* C32: a call of process moves the branch to applied, compiled or tested
\* only when the tasks of the stage are there with status COMPLETED and no
\* task of the branch is FAILED, ABORTED or ERRORED.
SuccessNeedsCompleted ==
    [][(step' # step /\ branch'.status # branch.status
        /\ branch'.status \in DOMAIN StageTasks)
       => /\ \A n \in StageTasks[branch'.status] :
                n \in DOMAIN tasks' /\ tasks'[n] = "COMPLETED"
          /\ ~\E n \in DOMAIN tasks' : task_is_failure(tasks'[n])]_vars

\* C32 happens: a call has moved the branch to tested, its Run Test task
\* COMPLETED.
SuccessNeedsCompletedWitness ==
    /\ step.from = "testing" /\ branch.status = "tested"
    /\ "Run Test" \in DOMAIN tasks /\ tasks["Run Test"] = "COMPLETED"

\* The commands are a run of COMPLETED ones, then at most one FAILED one,
\* then IGNORED ones only.
FirstFailureStops(cmds) ==
    \A k \in 1..Len(cmds) :
        /\ cmds[k] \in {"COMPLETED", "FAILED", "IGNORED"}
        /\ cmds[k] = "COMPLETED" => \A j \in 1..k : cmds[j] = "COMPLETED"
        /\ cmds[k] = "FAILED" => \A j \in 1..(k - 1) : cmds[j] = "COMPLETED"

\* The apply thread has ended.
ApplyEnded ==
    /\ "Apply" \in DOMAIN tasks /\ task_is_done(tasks["Apply"])
    /\ threads \cap {"apply", "apply loop"} = {}

\* C33 as claimed: whenever the Apply task has ended, its commands are a
\* run of COMPLETED ones, at most one FAILED one and IGNORED ones, and the
\* task is FAILED exactly when a command is FAILED.
CommandsWhenApplyEnded ==
    ApplyEnded =>
        /\ FirstFailureStops(commands)
        /\ tasks["Apply"] = "FAILED" <=> has_failed(commands)

\* C33: when the Apply task has ended COMPLETED or FAILED, its commands are
\* a run of COMPLETED ones, at most one FAILED one and IGNORED ones, and the
\* task is FAILED exactly when a command is FAILED; a call of process that
\* finds the task FAILED leaves the branch in applying-failed.
CommandsWhenApplyRan ==
    [][/\ (ApplyEnded /\ tasks["Apply"] # "ABORTED")' =>
             /\ FirstFailureStops(commands')
             /\ tasks'["Apply"] = "FAILED" <=> has_failed(commands')
       /\ (/\ step' # step /\ step'.from = "applying" /\ step'.exc = "none"
           /\ ApplyEnded /\ tasks["Apply"] = "FAILED")
          => branch'.status = "applying-failed"]_vars

\* C33 happens: a command has failed after one that was applied, the one
\* after it was ignored, and the branch has ended in applying-failed.
CommandsWhenApplyRanWitness ==
    /\ ApplyEnded /\ tasks["Apply"] = "FAILED"
    /\ commands = <<"COMPLETED", "FAILED", "IGNORED">>
    /\ branch.status = "applying-failed"

\* The Download and the Apply task are COMPLETED, and there is no other task.
CleanApply ==
    /\ DOMAIN tasks = {"Download", "Apply"}
    /\ \A n \in DOMAIN tasks : tasks[n] = "COMPLETED"

\* C34 as claimed: a call of process on an applying branch whose tasks are
\* all COMPLETED and whose merge commit cannot be made returns with the
\* branch in applying-failed, and writes neither failing_since nor
\* needs_rebase_since nor the ignore_date of a queue item.
MergeFailureFails ==
    [][(/\ step' # step /\ step'.from = "applying" /\ CleanApply
        /\ branch'.status # "applied")
       => /\ step'.exc = "none"
          /\ branch'.status = "applying-failed"
          /\ branch'.failing_since = branch.failing_since
          /\ branch'.needs_rebase_since = branch.needs_rebase_since
          /\ \A i \in DOMAIN items :
                items'[i].ignore_date = items[i].ignore_date]_vars

\* C35 as claimed: once the branch has a patch_count, no step changes it.
PatchCountKept ==
    [][branch.patch_count # NULL
       => branch'.patch_count = branch.patch_count]_vars

\* The statuses process knows: the ones it advances and the ones it leaves
\* alone.
EnumeratedStatuses ==
    {"new", "applying", "applied", "compiling", "compiled", "testing",
     "tested"} \cup TerminalStatuses

\* C36 as claimed: the status of the saved CfbotBranch row is always one of
\* new, applying, applied, compiling, compiled, testing, tested, finished or
\* the six aborted and failed statuses, so that no call of process meets a
\* status it raises ValueError for.
StatusEnumerated ==
    /\ branch.status \in EnumeratedStatuses \cup {"none"}
    /\ step.exc = "ValueError" => step.from = "none"

\* C37: a call of process on a branch in status new that has tasks leaves
\* the branch in applying-aborted, returns no delay, and creates or changes
\* no task and starts no thread.
LeftoverTasksAbort ==
    [][(step' # step /\ step'.from = "new" /\ DOMAIN tasks # {})
       => /\ step'.exc = "none"
          /\ branch'.status = "applying-aborted"
          /\ step'.delay = NULL
          /\ tasks' = tasks
          /\ threads' = threads]_vars

\* C37 happens: a branch set back to new after an attempt that left tasks
\* has been stepped, and is in applying-aborted with its tasks as they were.
LeftoverTasksAbortWitness ==
    /\ step.from = "new" /\ step.exc = "none"
    /\ branch.status = "applying-aborted"
    /\ \E n \in DOMAIN tasks : task_is_failure(tasks[n])

\* The first processed item met in ring order from the item after row c on,
\* or c itself when no other item is processed.
FirstProcessedAfter(its, c) ==
    LET ring == RingFrom(its, c)
        found == {k \in 2..Len(ring) : its[ring[k]].processed_date # NULL}
    IN  IF found = {} THEN c
        ELSE ring[CHOOSE k \in found : \A j \in found : k <= j]

\* The item after row x in ring order, the ring read from row c on.
RingAfter(its, c, x) ==
    LET ring == RingFrom(its, c)
        at == CHOOSE k \in 1..Len(ring) : ring[k] = x
    IN  IF at = Len(ring) THEN ring[1] ELSE ring[at + 1]

TickedBranchEnds ==
    (branch.status = "new") ~> (branch.status \in TerminalStatuses)

\* C40 as claimed: a call of process writes the ignore_date only of a queue
\* item a branch was created from (createBranch has written its
\* processed_date); the item that replaced it for a new patch set while the
\* branch was running, from which no branch has been created, is left alone.
IgnoredByOwnAttempt ==
    [][step' # step
       => \A i \in DOMAIN items \cap DOMAIN items' :
             items'[i].ignore_date # items[i].ignore_date
                => items[i].processed_date # NULL]_vars
====
